---------------------------- MODULE Spec2Model ----------------------------
(***************************************************************************)
(* FilesCleaner (AppData/FilesCleanerApp/app_utils.py): the walk / match / *)
(* confirm / apply engine, and the two terminal operations _delete and     *)
(* _clean_endings.                                                         *)
(*                                                                         *)
(* Strings are sequences of one-character strings, file contents are       *)
(* sequences of byte values, decoded text is a sequence of code points.    *)
(***************************************************************************)
EXTENDS Integers, Sequences, FiniteSets, TLC

(***************************************************************************)
(* Bounds of the model.                                                    *)
(***************************************************************************)
\* number of run() invocations made on one FilesCleaner instance
MaxRuns == 2
\* length, in bytes, of the file contents given to _clean_endings alone
MaxLen == 3

\* Python's None where a string is expected (both are falsy)
None == <<>>

(***************************************************************************)
(* Sequence helpers.                                                       *)
(***************************************************************************)
Range(s) == {s[k] : k \in 1..Len(s)}

RECURSIVE SumSeq(_)
SumSeq(s) == IF s = <<>> THEN 0 ELSE Head(s) + SumSeq(Tail(s))

RECURSIVE Flatten(_)
Flatten(ss) == IF ss = <<>> THEN <<>> ELSE Head(ss) \o Flatten(Tail(ss))

NoDuplicates(s) == \A j, k \in 1..Len(s) : j # k => s[j] # s[k]

(***************************************************************************)
(* Matchers: str.endswith and fnmatch.fnmatch over any of the patterns.    *)
(***************************************************************************)
\* s.endswith(p)
endswith(s, p) ==
    /\ Len(p) <= Len(s)
    /\ SubSeq(s, Len(s) - Len(p) + 1, Len(s)) = p

\* fnmatch(s, p) on a POSIX platform (normcase is the identity): '*' matches
\* any run of characters, the separator included, '?' any one character,
\* every other character of the patterns used here matches itself.
RECURSIVE fnmatch(_, _)
fnmatch(s, p) ==
    IF p = <<>> THEN s = <<>>
    ELSE IF Head(p) = "*"
         THEN \/ fnmatch(s, Tail(p))
              \/ s # <<>> /\ fnmatch(Tail(s), p)
         ELSE IF s = <<>> THEN FALSE
         ELSE IF Head(p) = "?" THEN fnmatch(Tail(s), Tail(p))
         ELSE Head(s) = Head(p) /\ fnmatch(Tail(s), Tail(p))

\* self.matchers[name](s)
matchers(name, pats, s) ==
    IF name = "endswith"
    THEN \E k \in 1..Len(pats) : endswith(s, pats[k])
    ELSE \E k \in 1..Len(pats) : fnmatch(s, pats[k])

\* self.actions: action name -> (path_operating_func, matcher)
\* the table with "convert" bound to the glob matcher
actions_ConvertGlobs ==
    [endswith_delete |-> [func |-> "_delete",        matcher |-> "endswith"],
     glob_delete     |-> [func |-> "_delete",        matcher |-> "glob"],
     convert         |-> [func |-> "_clean_endings", matcher |-> "glob"]]

actions ==
    [endswith_delete |-> [func |-> "_delete",        matcher |-> "endswith"],
     glob_delete     |-> [func |-> "_delete",        matcher |-> "glob"],
     convert         |-> [func |-> "_clean_endings", matcher |-> "endswith"]]

\* self.messages: function name -> (question, completion verb)
messages ==
    [_delete        |-> <<"Delete files/folders", "Deleted">>,
     _clean_endings |-> <<"Convert all Windows endings into Unix endings",
                          "Line endings cleaned for">>]

show_IgnoresNegate(neg, matcher, pats, path) ==
    IF matchers(matcher, pats, path) THEN path ELSE None

\* the filter run() hands to _walk: the path when it is to be shown, else None
show(neg, matcher, pats, path) ==
    IF neg
    THEN IF ~matchers(matcher, pats, path) THEN path ELSE None
    ELSE IF matchers(matcher, pats, path) THEN path ELSE None


(***************************************************************************)
(* The filesystem.  A state of the filesystem is a function from the       *)
(* existing paths to their entries; the walk root always exists.  The      *)
(* entries a tree may hold, in the order a directory listing yields them.  *)
(***************************************************************************)
\* self._path
Root == <<"r">>

\* os.path.join(root, t) for a relative name t
join(root, t) ==
    IF root # <<>> /\ root[Len(root)] = "/" THEN root \o t ELSE root \o <<"/">> \o t

\* os.path.relpath(obj, start) for an obj below start
relpath(obj, start) == SubSeq(obj, Len(start) + 2, Len(obj))

Universe ==
    << [parent |-> Root, name |-> <<"a", ".", "t", "m", "p">>, kind |-> "file",
        data |-> <<97, 32, 13, 10>>, size |-> 4],
       [parent |-> Root, name |-> <<"b", ".", "l", "o", "g">>, kind |-> "file",
        data |-> <<233>>, size |-> 1],
       [parent |-> Root, name |-> <<"d", "i", "r", "1">>, kind |-> "dir",
        data |-> <<>>, size |-> 4096],
       [parent |-> join(Root, <<"d", "i", "r", "1">>),
        name |-> <<"c", ".", "t", "m", "p">>, kind |-> "file",
        data |-> <<129>>, size |-> 1] >>

PathOf(e) == join(e.parent, e.name)

UniversePaths == {PathOf(Universe[k]) : k \in 1..Len(Universe)}

EntryAt(p) == CHOOSE e \in Range(Universe) : PathOf(e) = p

RootEntry == [kind |-> "dir", data |-> <<>>, size |-> 4096]

\* the filesystem holding exactly the paths S (and the walk root)
TreeOf(S) ==
    [p \in S \cup {Root} |->
        IF p = Root THEN RootEntry
        ELSE [kind |-> EntryAt(p).kind, data |-> EntryAt(p).data,
              size |-> EntryAt(p).size]]

\* the trees a run may start from: every set of entries closed under parent
Trees ==
    {TreeOf(S) : S \in {T \in SUBSET UniversePaths :
                          \A p \in T : EntryAt(p).parent \in T \cup {Root}}}

\* os.path.isfile, os.path.isdir, os.path.getsize
isfile(f, p) == p \in DOMAIN f /\ f[p].kind = "file"
isdir(f, p) == p \in DOMAIN f /\ f[p].kind = "dir"
getsize(f, p) == f[p].size

\* the names of the entries of directory d of one kind, in listing order
listdir(f, d, kind) ==
    LET es == SelectSeq(Universe, LAMBDA e : /\ e.parent = d
                                             /\ PathOf(e) \in DOMAIN f
                                             /\ f[PathOf(e)].kind = kind)
    IN  [k \in 1..Len(es) |-> es[k].name]

\* q lies strictly below directory p
IsUnder(q, p) ==
    /\ Len(q) > Len(p) + 1
    /\ SubSeq(q, 1, Len(p)) = p
    /\ q[Len(p) + 1] = "/"

\* the filesystem without the paths of S
Without(f, S) == [p \in DOMAIN f \ S |-> f[p]]


(***************************************************************************)
(* Terminal operation _delete, with shutil.rmtree and the _onerror handler.*)
(* What the platform does to a removal is the environment's choice env:    *)
(* env.bad is the path whose removal step fails (None: no step fails),     *)
(* env.access is what os.access(env.bad, os.W_OK) answers in the handler,  *)
(* env.retry is whether the handler's retry of the failed step succeeds.   *)
(* The result of an operation is the new filesystem and str(err) of the    *)
(* exception it raised (NoError: none).                                   *)
(***************************************************************************)
OSError(p) == [msg |-> "OSError", path |-> p]

\* the result of a call that raised nothing
NoError == [msg |-> "", path |-> <<>>]

\* the entries of directory d, of both kinds, in listing order
scandir(f, d) ==
    LET es == SelectSeq(Universe, LAMBDA e : e.parent = d /\ PathOf(e) \in DOMAIN f)
    IN  [k \in 1..Len(es) |-> PathOf(es[k])]

\* the order in which rmtree(p) removes: each entry's subtree, then p itself
RECURSIVE PostOrder(_, _)
PostOrder(f, p) ==
    IF isdir(f, p)
    THEN LET ch == scandir(f, p)
         IN  Flatten([k \in 1..Len(ch) |-> PostOrder(f, ch[k])]) \o <<p>>
    ELSE <<p>>

\* _onerror(func, path, exc_info): NoError when the retried step succeeded,
\* else the error that leaves the handler
_onerror(path, env) ==
    IF ~env.access
    THEN \* os.chmod(path, stat.S_IWUSR); func(path)
         IF env.retry THEN NoError ELSE OSError(path)
    ELSE \* raise
         OSError(path)

\* shutil.rmtree(path, onerror=self._onerror)
rmtree(f, path, env) ==
    LET order == PostOrder(f, path)
        hit == {k \in 1..Len(order) : order[k] = env.bad}
    IN  IF hit = {} \/ _onerror(env.bad, env) = NoError
        THEN [fs |-> Without(f, Range(order)), err |-> NoError]
        ELSE LET k == CHOOSE j \in hit : TRUE
             IN  [fs |-> Without(f, {order[j] : j \in 1..(k - 1)}),
                  err |-> _onerror(env.bad, env)]

_delete(f, path, env) ==
    IF isfile(f, path)
    THEN \* os.remove(path)
         IF env.bad = path THEN [fs |-> f, err |-> OSError(path)]
         ELSE [fs |-> Without(f, {path}), err |-> NoError]
    ELSE IF isdir(f, path)
    THEN rmtree(f, path, env)
    ELSE [fs |-> f, err |-> NoError]

(***************************************************************************)
(* Terminal operation _clean_endings: read as cp1252 text with universal   *)
(* newlines, strip every line on the right, write as UTF-8.                *)
(***************************************************************************)
\* cp1252 of the bytes 0x80..0x9F; -1 where the code page defines nothing
Cp1252High ==
    << 8364,   -1, 8218,  402, 8222, 8230, 8224, 8225,
        710, 8240,  352, 8249,  338,   -1,  381,   -1,
         -1, 8216, 8217, 8220, 8221, 8226, 8211, 8212,
        732, 8482,  353, 8250,  339,   -1,  382,  376 >>

cp1252(b) == IF b < 128 \/ b >= 160 THEN b ELSE Cp1252High[b - 127]

\* the code points str.rstrip() strips
Whitespace ==
    {9, 10, 11, 12, 13, 28, 29, 30, 31, 32, 133, 160, 5760, 8232, 8233, 8239,
     8287, 12288} \cup (8192..8202)

\* universal newlines: "\r\n" and "\r" are read as "\n"
RECURSIVE translate(_)
translate(t) ==
    IF t = <<>> THEN <<>>
    ELSE IF Head(t) = 13
         THEN IF Len(t) >= 2 /\ t[2] = 10
              THEN <<10>> \o translate(Tail(Tail(t)))
              ELSE <<10>> \o translate(Tail(t))
         ELSE <<Head(t)>> \o translate(Tail(t))

\* old.readlines(): the lines, each with its "\n"
RECURSIVE readlines(_)
readlines(t) ==
    IF t = <<>> THEN <<>>
    ELSE LET nl == {k \in 1..Len(t) : t[k] = 10}
         IN  IF nl = {} THEN <<t>>
             ELSE LET k == CHOOSE j \in nl : \A m \in nl : j <= m
                  IN  <<SubSeq(t, 1, k)>> \o readlines(SubSeq(t, k + 1, Len(t)))

\* l.rstrip()
RECURSIVE rstrip(_)
rstrip(l) ==
    IF l = <<>> \/ l[Len(l)] \notin Whitespace THEN l
    ELSE rstrip(SubSeq(l, 1, Len(l) - 1))

\* one code point in UTF-8
utf8(c) ==
    IF c < 128 THEN <<c>>
    ELSE IF c < 2048 THEN <<192 + (c \div 64), 128 + (c % 64)>>
    ELSE <<224 + (c \div 4096), 128 + ((c \div 64) % 64), 128 + (c % 64)>>

\* the bytes _clean_endings writes for the bytes it read (decodable ones)
cleaned(data) ==
    LET text == translate([k \in 1..Len(data) |-> cp1252(data[k])])
        lines == readlines(text)
        string == Flatten([k \in 1..Len(lines) |-> rstrip(lines[k]) \o <<10>>])
    IN  Flatten([k \in 1..Len(string) |-> utf8(string[k])])

_clean_endings(f, path, env) ==
    IF path \notin DOMAIN f
    THEN [fs |-> f, err |-> [msg |-> "FileNotFoundError", path |-> path]]
    ELSE IF f[path].kind = "dir"
    THEN [fs |-> f, err |-> [msg |-> "IsADirectoryError", path |-> path]]
    ELSE IF env.bad = path
    THEN [fs |-> f, err |-> OSError(path)]
    ELSE IF \E k \in 1..Len(f[path].data) : cp1252(f[path].data[k]) = -1
    THEN [fs |-> f, err |-> [msg |-> "UnicodeDecodeError", path |-> None]]
    ELSE LET out == cleaned(f[path].data)
         IN  [fs |-> [f EXCEPT ![path] = [kind |-> "file", data |-> out,
                                          size |-> Len(out)]],
              err |-> NoError]

\* the branch of _onerror a call of func(target) takes: "" when the handler
\* is not invoked, "chmod" for the permission repair, "raise" for the re-raise
handler(func, f, target, env) ==
    IF /\ func = "_delete"
       /\ isdir(f, target)
       /\ env.bad \in Range(PostOrder(f, target))
    THEN IF ~env.access THEN "chmod" ELSE "raise"
    ELSE ""

\* func(target) for the function an action names
call(func, f, target, env) ==
    IF func = "_delete" THEN _delete(f, target, env)
    ELSE _clean_endings(f, target, env)

\* what the environment may do to an operation on target
Envs(f, target) ==
    {[bad |-> None, access |-> TRUE, retry |-> TRUE]} \cup
    {[bad |-> b, access |-> a, retry |-> r] :
        b \in {q \in DOMAIN f : q = target \/ IsUnder(q, target)},
        a \in BOOLEAN, r \in BOOLEAN}


(***************************************************************************)
(* The state of one FilesCleaner instance, of the filesystem it works on   *)
(* and of the operator's terminal.                                         *)
(***************************************************************************)
VARIABLES
    fs,          \* the filesystem
    patterns,    \* self._patterns
    negate,      \* self._negate
    targets,     \* self.targets
    cum_size,    \* self.cum_size
    pc,          \* where run() stands: Idle, Walking, BulkPrompt, Applying,
                 \* ItemPrompt, Summary, Errors, Raised
    runs,        \* the number of run() invocations made so far
    action,      \* run: the action argument
    walk_stack,  \* _walk: the directories os.walk has still to yield
    results,     \* _walk: results
    sizes,       \* _walk: the os.path.getsize() value added for each result
    answer,      \* run: answer
    confirm,     \* _apply: confirm
    idx,         \* _apply: the position of the for loop in self.targets
    i,           \* _apply: i
    errors,      \* _apply: errors
    item_answer, \* _apply: answer
    log,         \* what the logger received during the current run
    prompted,    \* the prompts read_char displayed during the current run
    attempted,   \* the calls func(target) made during the current run: the
                 \* target, whether its path existed, str(err) if raised,
                 \* and the branch of _onerror taken
    outputs,     \* the results of _clean_endings applied on its own
    cli_args     \* the parsed command line, when run() is reached through cli.py

vars == <<fs, patterns, negate, targets, cum_size, pc, runs, action, walk_stack,
          results, sizes, answer, confirm, idx, i, errors, item_answer, log,
          prompted, attempted, outputs, cli_args>>

\* run() called on an instance directly: no command line
NoArgs == [cmd |-> "", glob |-> FALSE]

\* the pattern lists an instance may be constructed with
PatternLists ==
    { << <<".", "t", "m", "p">> >>,
      << <<".", "l", "o", "g">> >>,
      << <<".", "t", "m", "p">>, <<"1">> >>,
      << <<"*", ".", "t", "m", "p">> >>,
      << <<"r", "/", "?", ".", "*">> >> }

\* the action names run() may be called with; "purge" is in no table
ActionNames == {"endswith_delete", "glob_delete", "convert", "purge"}

\* the keys prompts.read_char may return; "" is an end-of-file read
Keys == {"y", "Y", "c", "C", "a", "A", "n", ""}

\* int(round(x / 1024.0, 0)): Python rounds a half to the even neighbour
Kilobytes(x) ==
    LET q == x \div 1024
        r == x % 1024
    IN  IF 2 * r < 1024 THEN q
        ELSE IF 2 * r > 1024 THEN q + 1
        ELSE IF q % 2 = 0 THEN q ELSE q + 1

Line(level, msg, args) == [level |-> level, msg |-> msg, args |-> args]

\* FilesCleaner.__init__, on a tree of the filesystem
Init ==
    /\ fs \in Trees
    /\ patterns \in PatternLists
    /\ negate \in BOOLEAN
    /\ targets = <<>>
    /\ cum_size = 0
    /\ pc = "Idle"
    /\ runs = 0
    /\ action = ""
    /\ walk_stack = <<>>
    /\ results = <<>>
    /\ sizes = <<>>
    /\ answer = ""
    /\ confirm = FALSE
    /\ idx = 0
    /\ i = 0
    /\ errors = <<>>
    /\ item_answer = ""
    /\ log = <<>>
    /\ prompted = <<>>
    /\ attempted = <<>>
    /\ outputs = <<>>
    /\ cli_args = NoArgs

\* run(action) up to the call of _walk: the working directory is logged and
\* the action is looked up; an unknown name raises KeyError out of run
Run(a) ==
    /\ pc = "Idle"
    /\ runs < MaxRuns
    /\ runs' = runs + 1
    /\ action' = a
    /\ log' = <<Line("info", "Working inside directory", <<Root>>)>>
    /\ prompted' = <<>>
    /\ attempted' = <<>>
    /\ sizes' = <<>>
    /\ results' = <<>>
    /\ answer' = ""
    /\ item_answer' = ""
    /\ confirm' = FALSE
    /\ idx' = 0
    /\ i' = 0
    /\ errors' = <<>>
    /\ IF a \in DOMAIN actions
       THEN pc' = "Walking" /\ walk_stack' = <<Root>>
       ELSE pc' = "Raised" /\ walk_stack' = <<>>
    /\ UNCHANGED <<fs, patterns, negate, targets, cum_size, outputs, cli_args>>

\* visit(root, target, prefix) of _walk, on acc = the results, self.cum_size,
\* the sizes and the log so far
RECURSIVE visit(_, _, _, _, _)
visit(acc, f, root, target, prefix) ==
    IF target = <<>> THEN acc
    ELSE LET item == join(root, Head(target))
             obj == show(negate, actions[action].matcher, patterns, item)
             next == IF obj # None
                     THEN [results |-> Append(acc.results, obj),
                           cum_size |-> acc.cum_size + getsize(f, obj),
                           sizes |-> Append(acc.sizes, getsize(f, obj)),
                           log |-> Append(acc.log,
                                      Line("info", prefix, <<relpath(obj, Root)>>))]
                     ELSE acc
         IN  visit(next, f, root, Tail(target), prefix)

descend_SkipsMatched(root, dirs) ==
    LET keep == SelectSeq(dirs, LAMBDA d :
                    show(negate, actions[action].matcher, patterns,
                         join(root, d)) = None)
    IN  [k \in 1..Len(keep) |-> join(root, keep[k])]

\* the directories os.walk goes on below after it yielded root: all of dirs
descend(root, dirs) == [k \in 1..Len(dirs) |-> join(root, dirs[k])]

\* the iteration with the files of a directory visited before its
\* subdirectories
WalkStep_FilesFirst ==
    /\ pc = "Walking"
    /\ walk_stack # <<>>
    /\ LET root == Head(walk_stack)
           dirs == listdir(fs, root, "dir")
           files == listdir(fs, root, "file")
           acc0 == [results |-> results, cum_size |-> cum_size, sizes |-> sizes,
                    log |-> log]
           acc1 == visit(acc0, fs, root, files, "|-->")
           acc2 == visit(acc1, fs, root, dirs, "+-->")
       IN  /\ results' = acc2.results
           /\ cum_size' = acc2.cum_size
           /\ sizes' = acc2.sizes
           /\ log' = acc2.log
           /\ walk_stack' = descend(root, dirs) \o Tail(walk_stack)
    /\ UNCHANGED <<fs, patterns, negate, targets, pc, runs, action, answer,
                   confirm, idx, i, errors, item_answer, prompted, attempted,
                   outputs, cli_args>>

\* one iteration of "for root, dirs, files in os.walk(path)": the walk yields
\* the next directory, its subdirectories are visited, then its files, and
\* the walk goes on below every subdirectory
WalkStep ==
    /\ pc = "Walking"
    /\ walk_stack # <<>>
    /\ LET root == Head(walk_stack)
           dirs == listdir(fs, root, "dir")
           files == listdir(fs, root, "file")
           acc0 == [results |-> results, cum_size |-> cum_size, sizes |-> sizes,
                    log |-> log]
           acc1 == visit(acc0, fs, root, dirs, "+-->")
           acc2 == visit(acc1, fs, root, files, "|-->")
       IN  /\ results' = acc2.results
           /\ cum_size' = acc2.cum_size
           /\ sizes' = acc2.sizes
           /\ log' = acc2.log
           /\ walk_stack' = descend(root, dirs) \o Tail(walk_stack)
    /\ UNCHANGED <<fs, patterns, negate, targets, pc, runs, action, answer,
                   confirm, idx, i, errors, item_answer, prompted, attempted,
                   outputs, cli_args>>

\* answer in {"y", "Y"}, answer in {"c", "C"}, answer in {"a", "A"}
AnswerIsYes(k) == k \in {"y", "Y"}
AnswerIsConfirm(k) == k \in {"c", "C"}
AnswerIsAbort_LowerCase(k) == k = "a"
AnswerIsAbort(k) == k \in {"a", "A"}

WalkDone_AlwaysPrompts ==
    /\ pc = "Walking"
    /\ walk_stack = <<>>
    /\ prompted' = Append(prompted, [kind |-> "bulk", path |-> <<>>])
    /\ pc' = "BulkPrompt"
    /\ UNCHANGED <<fs, patterns, negate, targets, cum_size, runs, action,
                   walk_stack, results, sizes, answer, confirm, idx, i, errors,
                   item_answer, log, attempted, outputs, cli_args>>

\* _walk returns: with results the bulk prompt is displayed and run blocks in
\* read_char, without results "No results." is logged and run returns
WalkDone ==
    /\ pc = "Walking"
    /\ walk_stack = <<>>
    /\ IF results # <<>>
       THEN /\ prompted' = Append(prompted, [kind |-> "bulk", path |-> <<>>])
            /\ pc' = "BulkPrompt"
            /\ log' = log
       ELSE /\ log' = Append(log, Line("info", "No results.", <<>>))
            /\ pc' = "Idle"
            /\ prompted' = prompted
    /\ UNCHANGED <<fs, patterns, negate, targets, cum_size, runs, action,
                   walk_stack, results, sizes, answer, confirm, idx, i, errors,
                   item_answer, attempted, outputs, cli_args>>

BulkAnswer_AssignsOnApply(k) ==
    /\ pc = "BulkPrompt"
    /\ answer' = k
    /\ IF AnswerIsYes(k) \/ AnswerIsConfirm(k)
       THEN /\ targets' = results
            /\ pc' = "Applying"
            /\ confirm' = AnswerIsConfirm(k)
            /\ idx' = 1 /\ i' = 0 /\ errors' = <<>>
            /\ log' = log
       ELSE /\ log' = Append(log, Line("warning", "Action cancelled.", <<>>))
            /\ pc' = "Idle"
            /\ UNCHANGED <<targets, confirm, idx, i, errors>>
    /\ UNCHANGED <<fs, patterns, negate, cum_size, runs, action, walk_stack,
                   results, sizes, item_answer, prompted, attempted, outputs, cli_args>>

\* the bulk answer with self.targets left as the earlier run set it
BulkAnswer_KeepsTargets(k) ==
    /\ pc = "BulkPrompt"
    /\ answer' = k
    /\ targets' = targets
    /\ IF AnswerIsYes(k)
       THEN /\ pc' = "Applying"
            /\ confirm' = FALSE
            /\ idx' = 1 /\ i' = 0 /\ errors' = <<>>
            /\ log' = log
       ELSE IF AnswerIsConfirm(k)
       THEN /\ pc' = "Applying"
            /\ confirm' = TRUE
            /\ idx' = 1 /\ i' = 0 /\ errors' = <<>>
            /\ log' = log
       ELSE /\ log' = Append(log, Line("warning", "Action cancelled.", <<>>))
            /\ pc' = "Idle"
            /\ UNCHANGED <<confirm, idx, i, errors>>
    /\ UNCHANGED <<fs, patterns, negate, cum_size, runs, action, walk_stack,
                   results, sizes, item_answer, prompted, attempted, outputs, cli_args>>

\* read_char returns k for the bulk prompt: self.targets = results, then
\* _apply(func), _apply(func, confirm=True) or the cancellation; _apply
\* starts with i = 0 and errors = []
BulkAnswer(k) ==
    /\ pc = "BulkPrompt"
    /\ answer' = k
    /\ targets' = results
    /\ IF AnswerIsYes(k)
       THEN /\ pc' = "Applying"
            /\ confirm' = FALSE
            /\ idx' = 1 /\ i' = 0 /\ errors' = <<>>
            /\ log' = log
       ELSE IF AnswerIsConfirm(k)
       THEN /\ pc' = "Applying"
            /\ confirm' = TRUE
            /\ idx' = 1 /\ i' = 0 /\ errors' = <<>>
            /\ log' = log
       ELSE /\ log' = Append(log, Line("warning", "Action cancelled.", <<>>))
            /\ pc' = "Idle"
            /\ UNCHANGED <<confirm, idx, i, errors>>
    /\ UNCHANGED <<fs, patterns, negate, cum_size, runs, action, walk_stack,
                   results, sizes, item_answer, prompted, attempted, outputs, cli_args>>

func == actions[action].func

\* the direct call with i incremented whether or not func raised
ApplyDirect_CountsFailures ==
    /\ pc = "Applying"
    /\ ~confirm
    /\ idx <= Len(targets)
    /\ \E env \in Envs(fs, targets[idx]) :
          LET target == targets[idx]
              r == call(func, fs, target, env)
          IN  /\ fs' = r.fs
              /\ attempted' = Append(attempted,
                                     [target |-> target, err |-> r.err,
                                      present |-> target \in DOMAIN fs,
                                      handler |-> handler(func, fs, target, env)])
              /\ IF r.err = NoError
                 THEN i' = i + 1 /\ errors' = errors
                 ELSE i' = i + 1 /\ errors' = Append(errors, r.err)
    /\ idx' = idx + 1
    /\ UNCHANGED <<patterns, negate, targets, cum_size, pc, runs, action,
                   walk_stack, results, sizes, answer, confirm, item_answer, log,
                   prompted, outputs, cli_args>>

ApplyDirect_StopsOnError ==
    /\ pc = "Applying"
    /\ ~confirm
    /\ idx <= Len(targets)
    /\ \E env \in Envs(fs, targets[idx]) :
          LET target == targets[idx]
              r == call(func, fs, target, env)
          IN  /\ fs' = r.fs
              /\ attempted' = Append(attempted,
                                     [target |-> target, err |-> r.err,
                                      present |-> target \in DOMAIN fs,
                                      handler |-> handler(func, fs, target, env)])
              /\ IF r.err = NoError
                 THEN i' = i + 1 /\ errors' = errors /\ pc' = pc
                 ELSE /\ i' = i
                      /\ errors' = Append(errors, r.err)
                      /\ pc' = "Summary"
    /\ idx' = idx + 1
    /\ UNCHANGED <<patterns, negate, targets, cum_size, runs, action,
                   walk_stack, results, sizes, answer, confirm, item_answer, log,
                   prompted, outputs, cli_args>>

\* _apply, confirm false: func(target) in the try block of the loop body
ApplyDirect ==
    /\ pc = "Applying"
    /\ ~confirm
    /\ idx <= Len(targets)
    /\ \E env \in Envs(fs, targets[idx]) :
          LET target == targets[idx]
              r == call(func, fs, target, env)
          IN  /\ fs' = r.fs
              /\ attempted' = Append(attempted,
                                     [target |-> target, err |-> r.err,
                                      present |-> target \in DOMAIN fs,
                                      handler |-> handler(func, fs, target, env)])
              /\ IF r.err = NoError
                 THEN i' = i + 1 /\ errors' = errors
                 ELSE i' = i /\ errors' = Append(errors, r.err)
    /\ idx' = idx + 1
    /\ UNCHANGED <<patterns, negate, targets, cum_size, pc, runs, action,
                   walk_stack, results, sizes, answer, confirm, item_answer, log,
                   prompted, outputs, cli_args>>

\* the per-item prompt displayed whether or not confirmation was asked for
ItemPrompt_AlwaysAsks ==
    /\ pc = "Applying"
    /\ idx <= Len(targets)
    /\ prompted' = Append(prompted, [kind |-> "item", path |-> targets[idx]])
    /\ pc' = "ItemPrompt"
    /\ UNCHANGED <<fs, patterns, negate, targets, cum_size, runs, action,
                   walk_stack, results, sizes, answer, confirm, idx, i, errors,
                   item_answer, log, attempted, outputs, cli_args>>

\* _apply, confirm true: the per-item prompt is displayed and _apply blocks
\* in read_char
ItemPrompt ==
    /\ pc = "Applying"
    /\ confirm
    /\ idx <= Len(targets)
    /\ prompted' = Append(prompted, [kind |-> "item", path |-> targets[idx]])
    /\ pc' = "ItemPrompt"
    /\ UNCHANGED <<fs, patterns, negate, targets, cum_size, runs, action,
                   walk_stack, results, sizes, answer, confirm, idx, i, errors,
                   item_answer, log, attempted, outputs, cli_args>>

\* read_char returns k for the per-item prompt: Yes calls func(target),
\* Abort breaks out of the loop, anything else continues with the next
ItemAnswer(k) ==
    /\ pc = "ItemPrompt"
    /\ item_answer' = k
    /\ IF AnswerIsYes(k)
       THEN /\ \E env \in Envs(fs, targets[idx]) :
                  LET target == targets[idx]
                      r == call(func, fs, target, env)
                  IN  /\ fs' = r.fs
                      /\ attempted' = Append(attempted,
                                             [target |-> target, err |-> r.err,
                                              present |-> target \in DOMAIN fs,
                                              handler |-> handler(func, fs, target, env)])
                      /\ IF r.err = NoError
                         THEN i' = i + 1 /\ errors' = errors
                         ELSE /\ i' = i
                              /\ errors' = Append(errors, <<func, target, r.err>>)
            /\ idx' = idx + 1
            /\ pc' = "Applying"
       ELSE IF AnswerIsAbort(k)
       THEN /\ pc' = "Summary"
            /\ UNCHANGED <<fs, attempted, i, errors, idx>>
       ELSE /\ pc' = "Applying"
            /\ idx' = idx + 1
            /\ UNCHANGED <<fs, attempted, i, errors>>
    /\ UNCHANGED <<patterns, negate, targets, cum_size, runs, action, walk_stack,
                   results, sizes, answer, confirm, log, prompted, outputs, cli_args>>

\* the for loop of _apply is exhausted
LoopEnd ==
    /\ pc = "Applying"
    /\ idx > Len(targets)
    /\ pc' = "Summary"
    /\ UNCHANGED <<fs, patterns, negate, targets, cum_size, runs, action,
                   walk_stack, results, sizes, answer, confirm, idx, i, errors,
                   item_answer, log, prompted, attempted, outputs, cli_args>>

Summary_WithoutElse ==
    /\ pc = "Summary"
    /\ IF i # 0
       THEN log' = log \o
                   << Line("info", "summary",
                           <<messages[func][2], i, Kilobytes(cum_size)>>),
                      Line("info", "No action taken", <<>>) >>
       ELSE log' = Append(log, Line("info", "No action taken", <<>>))
    /\ pc' = "Errors"
    /\ UNCHANGED <<fs, patterns, negate, targets, cum_size, runs, action,
                   walk_stack, results, sizes, answer, confirm, idx, i, errors,
                   item_answer, prompted, attempted, outputs, cli_args>>

\* _apply after the loop: the summary line, or "No action taken"
Summary ==
    /\ pc = "Summary"
    /\ IF i # 0
       THEN log' = Append(log, Line("info", "summary",
                                    <<messages[func][2], i, Kilobytes(cum_size)>>))
       ELSE log' = Append(log, Line("info", "No action taken", <<>>))
    /\ pc' = "Errors"
    /\ UNCHANGED <<fs, patterns, negate, targets, cum_size, runs, action,
                   walk_stack, results, sizes, answer, confirm, idx, i, errors,
                   item_answer, prompted, attempted, outputs, cli_args>>

\* _apply after the summary: for every recorded error the header line and
\* the error are logged; _apply and run return
ErrorLog ==
    /\ pc = "Errors"
    /\ log' = log \o Flatten([k \in 1..Len(errors) |->
                  << Line("error", "The following errors were found:", <<>>),
                     Line("error", "err", <<errors[k]>>) >>])
    /\ pc' = "Idle"
    /\ UNCHANGED <<fs, patterns, negate, targets, cum_size, runs, action,
                   walk_stack, results, sizes, answer, confirm, idx, i, errors,
                   item_answer, prompted, attempted, outputs, cli_args>>

Next ==
    \/ \E a \in ActionNames : Run(a)
    \/ WalkStep
    \/ WalkDone
    \/ \E k \in Keys : BulkAnswer(k)
    \/ ApplyDirect
    \/ ItemPrompt
    \/ \E k \in Keys : ItemAnswer(k)
    \/ LoopEnd
    \/ Summary
    \/ ErrorLog

Spec == Init /\ [][Next]_vars

\* _walk and _apply are sequential code that keeps running, and read_char
\* returns once the user presses a key
Fairness ==
    /\ WF_vars(WalkStep)
    /\ WF_vars(WalkDone)
    /\ WF_vars(\E k \in Keys : BulkAnswer(k))
    /\ WF_vars(ApplyDirect)
    /\ WF_vars(ItemPrompt)
    /\ WF_vars(\E k \in Keys : ItemAnswer(k))
    /\ WF_vars(LoopEnd)
    /\ WF_vars(Summary)
    /\ WF_vars(ErrorLog)

(***************************************************************************)
(* The command line tool of cli.py: one FilesCleaner is constructed from   *)
(* the parsed arguments and the sub-command runs it once.                  *)
(***************************************************************************)
\* the sub-command and the --glob option of the parsed arguments
CliArgs == [cmd : {"del", "edit"}, glob : BOOLEAN]

\* delete with the two strategies exchanged
delete_Swapped(glob_deletion) ==
    IF glob_deletion THEN "endswith_delete" ELSE "glob_delete"

\* CommandLineTool.delete: the action name handed to cleaner.run
delete(glob_deletion) ==
    IF glob_deletion THEN "glob_delete" ELSE "endswith_delete"

\* CommandLineTool.edit: the action name handed to cleaner.run
edit == "convert"

\* CommandLineTool.__init__ picks self.action from the sub-command, with
\* self.glob_deletion = args["--glob"]; CommandLineTool.run calls it
CliRun ==
    /\ cli_args.cmd # ""
    /\ runs = 0
    /\ IF cli_args.cmd = "edit"
       THEN Run(edit)
       ELSE Run(delete(cli_args.glob))

InitCli ==
    /\ fs \in Trees
    /\ patterns \in PatternLists
    /\ negate \in BOOLEAN
    /\ targets = <<>>
    /\ cum_size = 0
    /\ pc = "Idle"
    /\ runs = 0
    /\ action = ""
    /\ walk_stack = <<>>
    /\ results = <<>>
    /\ sizes = <<>>
    /\ answer = ""
    /\ confirm = FALSE
    /\ idx = 0
    /\ i = 0
    /\ errors = <<>>
    /\ item_answer = ""
    /\ log = <<>>
    /\ prompted = <<>>
    /\ attempted = <<>>
    /\ outputs = <<>>
    /\ cli_args \in CliArgs

NextCli ==
    \/ CliRun
    \/ WalkStep
    \/ WalkDone
    \/ \E k \in Keys : BulkAnswer(k)
    \/ ApplyDirect
    \/ ItemPrompt
    \/ \E k \in Keys : ItemAnswer(k)
    \/ LoopEnd
    \/ Summary
    \/ ErrorLog

SpecCli == InitCli /\ [][NextCli]_vars

\* the command line tool with a run that keeps running and a user who
\* answers the prompts
SpecLive == SpecCli /\ Fairness


(***************************************************************************)
(* _clean_endings on its own: one file of any content, cleaned twice.      *)
(***************************************************************************)
\* the bytes the contents are drawn from: "\n", "\r", " ", "a", a byte cp1252
\* does not define, and the cp1252 bytes of the no-break space and of e-acute
ByteSamples == {10, 13, 32, 97, 129, 160, 233}

Contents == UNION {[1..n -> ByteSamples] : n \in 0..MaxLen}

NormPath == join(Root, <<"f">>)

\* an environment in which no step fails
Calm == [bad |-> None, access |-> TRUE, retry |-> TRUE]

InitNorm ==
    /\ \E data \in Contents :
          fs = [p \in {Root, NormPath} |->
                   IF p = Root THEN RootEntry
                   ELSE [kind |-> "file", data |-> data, size |-> Len(data)]]
    /\ patterns = <<>>
    /\ negate = FALSE
    /\ targets = <<>>
    /\ cum_size = 0
    /\ pc = "Idle"
    /\ runs = 0
    /\ action = ""
    /\ walk_stack = <<>>
    /\ results = <<>>
    /\ sizes = <<>>
    /\ answer = ""
    /\ confirm = FALSE
    /\ idx = 0
    /\ i = 0
    /\ errors = <<>>
    /\ item_answer = ""
    /\ log = <<>>
    /\ prompted = <<>>
    /\ attempted = <<>>
    /\ outputs = <<>>
    /\ cli_args = NoArgs

\* self._clean_endings(path), for the first and for the second time
Normalize ==
    /\ Len(outputs) < 2
    /\ LET r == _clean_endings(fs, NormPath, Calm)
       IN  /\ fs' = r.fs
           /\ outputs' = Append(outputs, [err |-> r.err,
                                          data |-> r.fs[NormPath].data])
    /\ UNCHANGED <<patterns, negate, targets, cum_size, pc, runs, action,
                   walk_stack, results, sizes, answer, confirm, idx, i, errors,
                   item_answer, log, prompted, attempted, cli_args>>

NextNorm == Normalize

SpecNorm == InitNorm /\ [][NextNorm]_vars


(***************************************************************************)
(* Vocabulary of the properties.                                           *)
(***************************************************************************)
YesKeys == {"y", "Y"}
ConfirmKeys == {"c", "C"}
AbortKeys == {"a", "A"}

\* the bulk prompt of the current run was answered Yes or Confirm
Applied == prompted # <<>> /\ pc # "BulkPrompt" /\ answer \in YesKeys \cup ConfirmKeys

\* the apply loop of the current run is over
LoopOver == Applied /\ pc \in {"Summary", "Errors", "Idle"}

\* the apply phase of the current run has returned
Returned == Applied /\ pc = "Idle"

\* the targets func was called on, in call order
AttemptedTargets == [k \in 1..Len(attempted) |-> attempted[k].target]

\* str(err) of the calls that raised, in call order
Failures ==
    LET bad == SelectSeq(attempted, LAMBDA a : a.err # NoError)
    IN  [k \in 1..Len(bad) |-> bad[k].err]

\* str(err) inside an error record: the record itself, or the third
\* component of the tuple of the confirm mode
ErrOf(rec) == IF confirm THEN rec[3] ELSE rec

\* the log lines with message msg
LinesOf(msg) == SelectSeq(log, LAMBDA l : l.msg = msg)

(***************************************************************************)
(* C1  Error isolation.  A call func(target) that raises never stops the   *)
(* batch: the loop goes on with the next target.  Without confirmation     *)
(* func is called on every target exactly once, in order; with             *)
(* confirmation every Yes answer calls func on the prompted target,        *)
(* whatever failed before.  The error records are exactly the failures,    *)
(* one each, in order; no error is logged before the loop is over, and     *)
(* when _apply has returned each record has been logged exactly once.      *)
(***************************************************************************)
C1_State ==
    /\ Len(errors) = Len(Failures)
    /\ \A k \in 1..Len(errors) : ErrOf(errors[k]) = Failures[k]
    /\ i + Len(errors) = Len(attempted)
    /\ (Applied /\ ~confirm /\ pc = "Applying") =>
          AttemptedTargets = SubSeq(targets, 1, idx - 1)
    /\ (LoopOver /\ ~confirm) => AttemptedTargets = targets
    /\ pc # "Idle" => LinesOf("err") = <<>>
    /\ Returned =>
          /\ Len(LinesOf("err")) = Len(errors)
          /\ \A k \in 1..Len(errors) : LinesOf("err")[k].args = <<errors[k]>>

C1_Step ==
    /\ (pc = "ItemPrompt" /\ item_answer' \in YesKeys) =>
          /\ Len(attempted') = Len(attempted) + 1
          /\ attempted'[Len(attempted')].target = targets[idx]
    /\ Len(attempted') > Len(attempted) =>
          /\ pc' = "Applying"
          /\ idx' = idx + 1
          /\ targets' = targets

C1_ErrorIsolation == []C1_State /\ [][C1_Step]_vars

\* the second of three calls failed, the third was still made and succeeded,
\* and the one error has been logged
C1_Witness ==
    /\ Returned
    /\ Len(attempted) >= 3
    /\ attempted[2].err # NoError
    /\ attempted[3].err = NoError
    /\ Len(LinesOf("err")) = 1


(***************************************************************************)
(* C2  Per-item confirmation.  An answer y or Y calls func on the prompted *)
(* target and on nothing else; an answer a or A ends the loop at once,     *)
(* with no call, no error record and the filesystem as it was, so that     *)
(* the later targets are neither prompted for nor operated on; any other   *)
(* answer makes no call, records no error and goes on with the next        *)
(* target.  Once the loop is over nothing is prompted, called or undone.   *)
(***************************************************************************)
\* the targets the per-item prompts were displayed for, in order
ItemPrompts ==
    LET ps == SelectSeq(prompted, LAMBDA q : q.kind = "item")
    IN  [k \in 1..Len(ps) |-> ps[k].path]

C2_State ==
    /\ (Applied /\ confirm /\ pc = "ItemPrompt") =>
          ItemPrompts = SubSeq(targets, 1, idx)
    /\ (Applied /\ confirm /\ pc = "Applying") =>
          ItemPrompts = SubSeq(targets, 1, idx - 1)
    /\ (LoopOver /\ confirm /\ item_answer \in AbortKeys) =>
          /\ idx <= Len(targets)
          /\ ItemPrompts = SubSeq(targets, 1, idx)
          /\ \A k \in 1..Len(attempted) :
                \E j \in 1..(idx - 1) : attempted[k].target = targets[j]
    /\ (LoopOver /\ confirm /\ item_answer \notin AbortKeys) =>
          ItemPrompts = targets
    /\ (Applied /\ confirm) =>
          \A j, k \in 1..Len(attempted) :
             j < k => \E m, n \in 1..Len(targets) :
                         /\ m < n
                         /\ targets[m] = attempted[j].target
                         /\ targets[n] = attempted[k].target

C2_Step ==
    /\ (pc = "ItemPrompt" /\ item_answer' \in YesKeys) =>
          /\ attempted' # attempted
          /\ SubSeq(attempted', 1, Len(attempted)) = attempted
          /\ Len(attempted') = Len(attempted) + 1
          /\ attempted'[Len(attempted')].target = targets[idx]
          /\ pc' = "Applying"
          /\ idx' = idx + 1
    /\ (pc = "ItemPrompt" /\ item_answer' \in AbortKeys) =>
          /\ pc' = "Summary"
          /\ UNCHANGED <<attempted, errors, i, fs, prompted, idx>>
    /\ (pc = "ItemPrompt" /\ item_answer' \notin YesKeys \cup AbortKeys) =>
          /\ pc' = "Applying"
          /\ idx' = idx + 1
          /\ UNCHANGED <<attempted, errors, i, fs, prompted>>
    /\ pc \in {"Summary", "Errors"} =>
          UNCHANGED <<attempted, errors, i, fs, prompted, idx, targets>>

C2_PerItemConfirmation == []C2_State /\ [][C2_Step]_vars

\* three targets, answers Yes then Abort: one call, the loop stopped at the
\* second target, the third never prompted for, no error recorded
C2_Witness ==
    /\ Returned
    /\ confirm
    /\ Len(targets) = 3
    /\ item_answer \in AbortKeys
    /\ idx = 2
    /\ AttemptedTargets = <<targets[1]>>
    /\ ItemPrompts = <<targets[1], targets[2]>>
    /\ errors = <<>>
    /\ targets[3] \in DOMAIN fs

(***************************************************************************)
(* C3  Bulk cancellation.  When the bulk prompt is answered with any key   *)
(* other than y, Y, c, C (an end-of-file read included), run makes no call *)
(* of func, changes nothing in the filesystem, logs the warning "Action    *)
(* cancelled." once, as its last line, and leaves self.targets holding the *)
(* discovered results.                                                     *)
(***************************************************************************)
\* the bulk prompt of the current run was answered with a cancelling key
Cancelled ==
    /\ prompted # <<>>
    /\ pc = "Idle"
    /\ answer \notin YesKeys \cup ConfirmKeys

C3_State ==
    Cancelled =>
       /\ attempted = <<>>
       /\ results # <<>>
       /\ targets = results
       /\ \A k \in 1..Len(targets) :
             targets[k] \in DOMAIN fs /\ getsize(fs, targets[k]) = sizes[k]
       /\ Len(LinesOf("Action cancelled.")) = 1
       /\ log[Len(log)].msg = "Action cancelled."
       /\ log[Len(log)].level = "warning"
       /\ LinesOf("summary") = <<>>

C3_Step ==
    /\ (pc = "BulkPrompt" /\ answer' \notin YesKeys \cup ConfirmKeys) =>
          /\ pc' = "Idle"
          /\ fs' = fs
          /\ attempted' = attempted
          /\ targets' = results
    /\ pc \in {"Walking", "BulkPrompt", "Idle"} => fs' = fs

C3_BulkCancellation == []C3_State /\ [][C3_Step]_vars

\* a run that found targets was cancelled by an end-of-file read
C3_Witness ==
    /\ Cancelled
    /\ answer = ""
    /\ Len(targets) >= 2
    /\ runs = 1

(***************************************************************************)
(* C4  The state machine of run.  No prompt is displayed while the walk is *)
(* going on; a walk that finds nothing logs "No results.", displays no     *)
(* prompt and calls func on nothing; a walk that finds something displays  *)
(* exactly one bulk prompt, before every per-item prompt; func is called,  *)
(* and per-item prompts are displayed, only after the bulk prompt of the   *)
(* current run was answered y, Y, c or C.                                  *)
(***************************************************************************)
\* the walk of the current run is over
Walked == runs > 0 /\ action \in DOMAIN actions /\ pc # "Walking"

C4_State ==
    /\ pc = "Walking" => prompted = <<>> /\ attempted = <<>>
    /\ prompted # <<>> => walk_stack = <<>> /\ Walked
    /\ (Walked /\ results = <<>>) =>
          /\ pc = "Idle"
          /\ prompted = <<>>
          /\ attempted = <<>>
          /\ log[Len(log)].msg = "No results."
    /\ (Walked /\ results # <<>>) =>
          /\ prompted # <<>>
          /\ prompted[1].kind = "bulk"
          /\ \A k \in 2..Len(prompted) : prompted[k].kind = "item"
          /\ LinesOf("No results.") = <<>>
    /\ pc = "BulkPrompt" => Len(prompted) = 1 /\ attempted = <<>>
    /\ (attempted # <<>> \/ Len(prompted) > 1) =>
          /\ answer \in YesKeys \cup ConfirmKeys
          /\ pc \notin {"Walking", "BulkPrompt"}
    /\ pc \in {"Applying", "ItemPrompt", "Summary", "Errors"} => Applied

C4_Step ==
    /\ pc = "Idle" => pc' \in {"Idle", "Walking", "Raised"}
    /\ pc = "Walking" => pc' \in {"Walking", "BulkPrompt", "Idle"}
    /\ (pc = "Walking" /\ pc' = "BulkPrompt") => results # <<>>
    /\ (pc = "Walking" /\ pc' = "Idle") => results = <<>>
    /\ pc = "BulkPrompt" => pc' \in {"BulkPrompt", "Applying", "Idle"}
    /\ (pc = "BulkPrompt" /\ pc' = "Applying") =>
          answer' \in YesKeys \cup ConfirmKeys
    /\ pc = "Applying" => pc' \in {"Applying", "ItemPrompt", "Summary"}
    /\ pc = "ItemPrompt" => pc' \in {"ItemPrompt", "Applying", "Summary"}
    /\ pc = "Summary" => pc' \in {"Summary", "Errors"}
    /\ pc = "Errors" => pc' \in {"Errors", "Idle"}

C4_RunStateMachine == []C4_State /\ [][C4_Step]_vars

\* a second run found nothing after a first run that applied its operation
C4_Witness ==
    /\ runs = 2
    /\ Walked
    /\ results = <<>>
    /\ targets # <<>>
    /\ pc = "Idle"


(***************************************************************************)
(* C5  self.cum_size is the sum of the sizes of the targets the current    *)
(* run discovered: when the summary is about to be logged, the cumulative  *)
(* size equals the sum of the os.path.getsize() values of this run's       *)
(* results, with nothing carried over from an earlier run.                 *)
(***************************************************************************)
C5_CumulativeSizePerRun == pc = "Summary" => cum_size = SumSeq(sizes)

(***************************************************************************)
(* C6  A target of _delete whose path no longer exists when func is called *)
(* raises: the call has an error, and the number of succeeded items is at  *)
(* most the number of calls made on paths that existed.                    *)
(***************************************************************************)
C6_VanishedPathFails ==
    /\ \A k \in 1..Len(attempted) :
          (func = "_delete" /\ ~attempted[k].present) =>
             attempted[k].err # NoError
    /\ (attempted # <<>> /\ func = "_delete") =>
          i <= Len(SelectSeq(attempted, LAMBDA a : a.present))

(***************************************************************************)
(* C7  _clean_endings is idempotent: when its first application to a file  *)
(* succeeds, the second one succeeds too and leaves the bytes the first    *)
(* one wrote.  Checked under SpecNorm.                                     *)
(***************************************************************************)
C7_NormalizeIdempotent ==
    (Len(outputs) = 2 /\ outputs[1].err = NoError) =>
       /\ outputs[2].err = NoError
       /\ outputs[2].data = outputs[1].data

(***************************************************************************)
(* C8  Discovery is complete and does not prune.  When _walk has returned, *)
(* results holds, each exactly once, exactly the entries below the root    *)
(* whose joined path the filter shows, at every depth and also below a     *)
(* directory that is itself a result.  On the tree a.tmp, b.log,           *)
(* dir1/c.tmp with the pattern ".tmp", the suffix matcher and no negation  *)
(* the results are a.tmp and dir1/c.tmp.                                   *)
(***************************************************************************)
\* _walk has returned and func was not called since: the filesystem is the
\* one the walk saw
Discovered == Walked /\ attempted = <<>>

P_a_tmp == join(Root, <<"a", ".", "t", "m", "p">>)
P_b_log == join(Root, <<"b", ".", "l", "o", "g">>)
P_dir1 == join(Root, <<"d", "i", "r", "1">>)
P_c_tmp == join(P_dir1, <<"c", ".", "t", "m", "p">>)

\* the tree of scenarios A and B, searched for the suffix ".tmp"
ScenarioTree ==
    /\ DOMAIN fs = {Root, P_a_tmp, P_b_log, P_dir1, P_c_tmp}
    /\ patterns = << <<".", "t", "m", "p">> >>
    /\ actions[action].matcher = "endswith"

C8_DiscoveryComplete ==
    Discovered =>
       /\ NoDuplicates(results)
       /\ Range(results) =
             {p \in DOMAIN fs \ {Root} :
                 show(negate, actions[action].matcher, patterns, p) # None}
       /\ (ScenarioTree /\ ~negate) => Range(results) = {P_a_tmp, P_c_tmp}

\* a directory is a result and so is an entry below it
C8_Witness ==
    /\ pc = "BulkPrompt"
    /\ \E j, k \in 1..Len(results) : IsUnder(results[k], results[j])

(***************************************************************************)
(* C9  Negation law.  When _walk has returned, an entry below the root is  *)
(* a result iff negate XOR raw_match(path), where raw_match is "the path   *)
(* ends with one of the patterns" for the suffix matcher and "the path     *)
(* matches one of the glob patterns" for the glob matcher.  On the tree    *)
(* a.tmp, b.log, dir1/c.tmp with the pattern ".tmp" and negate set, the    *)
(* results are b.log and dir1.                                             *)
(***************************************************************************)
RawMatch(X) ==
    IF actions[action].matcher = "endswith"
    THEN \E k \in 1..Len(patterns) :
            \E n \in 0..Len(X) : X = SubSeq(X, 1, n) \o patterns[k]
    ELSE \E k \in 1..Len(patterns) : fnmatch(X, patterns[k])

C9_NegationLaw ==
    Discovered =>
       /\ \A X \in DOMAIN fs \ {Root} :
             (X \in Range(results)) <=> (negate # RawMatch(X))
       /\ (ScenarioTree /\ negate) => Range(results) = {P_b_log, P_dir1}

\* scenario B has been walked
C9_Witness ==
    /\ pc = "BulkPrompt"
    /\ ScenarioTree
    /\ negate
    /\ results = <<P_dir1, P_b_log>>

(***************************************************************************)
(* C10  The summary of the apply phase.  Nothing of it is logged before    *)
(* the loop is over; once it is logged, the log of the run holds exactly   *)
(* one of the two lines: the summary line, with the completion verb of the *)
(* function and the number of calls that raised nothing, when at least one *)
(* call raised nothing, or "No action taken" when none did.  This also     *)
(* holds when the loop was ended by Abort.                                 *)
(***************************************************************************)
Successes == Len(SelectSeq(attempted, LAMBDA a : a.err = NoError))

C10_ApplySummary ==
    /\ pc \in {"Walking", "BulkPrompt", "Applying", "ItemPrompt", "Summary"} =>
          LinesOf("summary") = <<>> /\ LinesOf("No action taken") = <<>>
    /\ (Applied /\ pc \in {"Errors", "Idle"}) =>
          /\ Len(LinesOf("summary")) + Len(LinesOf("No action taken")) = 1
          /\ Successes >= 1 =>
                /\ Len(LinesOf("summary")) = 1
                /\ LinesOf("summary")[1].args[1] = messages[func][2]
                /\ LinesOf("summary")[1].args[2] = Successes
          /\ Successes = 0 => Len(LinesOf("No action taken")) = 1

\* a confirmed batch ended by Abort after one success and one failure
C10_Witness ==
    /\ Returned
    /\ item_answer \in AbortKeys
    /\ idx <= Len(targets)
    /\ Successes = 1
    /\ errors # <<>>
    /\ Len(LinesOf("summary")) = 1


(***************************************************************************)
(* C11  The error listing.  Nothing of it is logged before _apply returns. *)
(* When _apply has returned with n >= 1 error records, the error output is *)
(* one header line followed by the n records in the order they were        *)
(* recorded, all of it after the summary line; with no error record there  *)
(* is neither a header nor an error line.                                  *)
(***************************************************************************)
ErrorHeader == "The following errors were found:"

\* the lines the logger received at level error
ErrorOutput == SelectSeq(log, LAMBDA l : l.level = "error")

\* the position in the log of the summary line or of "No action taken"
SummaryAt ==
    CHOOSE k \in 1..Len(log) : log[k].msg \in {"summary", "No action taken"}

C11_ErrorListing ==
    /\ pc # "Idle" => ErrorOutput = <<>>
    /\ Returned =>
          /\ errors = <<>> => ErrorOutput = <<>>
          /\ errors # <<>> =>
                /\ Len(ErrorOutput) = 1 + Len(errors)
                /\ ErrorOutput[1].msg = ErrorHeader
                /\ \A k \in 1..Len(errors) :
                      /\ ErrorOutput[k + 1].msg = "err"
                      /\ ErrorOutput[k + 1].args = <<errors[k]>>
          /\ \A k \in 1..Len(log) : log[k].level = "error" => k > SummaryAt


(***************************************************************************)
(* C12  Action resolution.  run("endswith_delete") discovers with the      *)
(* suffix matcher and deletes, run("glob_delete") discovers with the glob  *)
(* matcher and deletes, run("convert") discovers with the suffix matcher   *)
(* and normalizes.  run with any other name raises at once: nothing is     *)
(* discovered, no prompt is displayed, func is called on nothing, and the  *)
(* target list, the filesystem and the cumulative size stay as they were.  *)
(***************************************************************************)
\* the entries below the root selected with the suffix matcher
SuffixSelected ==
    {p \in DOMAIN fs \ {Root} :
        negate # (\E k \in 1..Len(patterns) : endswith(p, patterns[k]))}

\* the entries below the root selected with the glob matcher
GlobSelected ==
    {p \in DOMAIN fs \ {Root} :
        negate # (\E k \in 1..Len(patterns) : fnmatch(p, patterns[k]))}

KnownActions == {"endswith_delete", "glob_delete", "convert"}

C12_State ==
    /\ (Discovered /\ action \in {"endswith_delete", "convert"}) =>
          Range(results) = SuffixSelected
    /\ (Discovered /\ action = "glob_delete") =>
          Range(results) = GlobSelected
    /\ pc = "Raised" =>
          /\ action \notin KnownActions
          /\ results = <<>>
          /\ sizes = <<>>
          /\ prompted = <<>>
          /\ attempted = <<>>
    /\ (runs > 0 /\ action \notin KnownActions) => pc = "Raised"

C12_Step ==
    /\ Len(attempted') > Len(attempted) =>
          LET made == attempted'[Len(attempted')]
          IN  /\ action \in {"endswith_delete", "glob_delete"} =>
                    (made.err = NoError => made.target \notin DOMAIN fs')
              /\ action = "convert" =>
                    /\ DOMAIN fs' = DOMAIN fs
                    /\ made.err = NoError =>
                          /\ isfile(fs, made.target)
                          /\ fs'[made.target].data =
                                cleaned(fs[made.target].data)
    /\ runs' > runs =>
          /\ action' \in KnownActions => pc' = "Walking"
          /\ action' \notin KnownActions =>
                /\ pc' = "Raised"
                /\ UNCHANGED <<targets, fs, cum_size>>
    /\ pc = "Raised" => UNCHANGED vars

C12_ActionResolution == []C12_State /\ [][C12_Step]_vars

\* a run with an unknown name raised after an earlier run had left its
\* targets behind
C12_Witness ==
    /\ pc = "Raised"
    /\ runs = 2
    /\ targets # <<>>
    /\ Len(log) = 1


(***************************************************************************)
(* C13  Delete with permission repair.  A call of _delete on a directory   *)
(* in which a removal step failed on a path that is not writable succeeds: *)
(* the handler grants owner write permission and retries the step once.    *)
(* A call in which the step failed for another reason raises that failure, *)
(* and the failure is in the error list of the batch.                      *)
(***************************************************************************)
C13_DeleteRepairs ==
    \A k \in 1..Len(attempted) :
       /\ attempted[k].handler = "chmod" => attempted[k].err = NoError
       /\ attempted[k].handler = "raise" =>
             /\ attempted[k].err # NoError
             /\ \E j \in 1..Len(errors) : ErrOf(errors[j]) = attempted[k].err


(***************************************************************************)
(* C14  Ordering.  The walk is top-down and visits, in each directory, all *)
(* subdirectories before all files: in the results a directory precedes    *)
(* every result below it, the subdirectories of a directory precede its    *)
(* files, and the entries of a directory precede the entries of every      *)
(* directory below it.  _apply prompts and operates in that order: the     *)
(* targets are the results as discovered, the per-item prompts are a       *)
(* prefix of them and the targets operated on a subsequence of them.       *)
(***************************************************************************)
\* os.path.dirname of a joined path
dirname(p) ==
    LET sl == {k \in 1..Len(p) : p[k] = "/"}
        last == CHOOSE k \in sl : \A m \in sl : m <= k
    IN  SubSeq(p, 1, last - 1)

\* the position of a path in the target list
PosInTargets(p) == CHOOSE n \in 1..Len(targets) : targets[n] = p

C14_Ordering ==
    /\ Discovered =>
          \A j, k \in 1..Len(results) :
             /\ IsUnder(results[k], results[j]) => j < k
             /\ ( /\ dirname(results[j]) = dirname(results[k])
                  /\ isdir(fs, results[j])
                  /\ isfile(fs, results[k]) ) => j < k
             /\ ( \/ dirname(results[k]) = results[j]
                  \/ IsUnder(dirname(results[k]), dirname(results[j])) ) => j < k
    /\ Applied =>
          /\ targets = results
          /\ ItemPrompts = SubSeq(targets, 1, Len(ItemPrompts))
          /\ \A k \in 1..Len(attempted) :
                attempted[k].target \in Range(targets)
          /\ \A j, k \in 1..Len(attempted) :
                j < k => PosInTargets(attempted[j].target)
                            < PosInTargets(attempted[k].target)

\* a directory, a file beside it and a file below it were discovered in that
\* order; the file beside it was skipped and the other two operated on
C14_Witness ==
    /\ Returned
    /\ confirm
    /\ targets = <<P_dir1, P_a_tmp, P_c_tmp>>
    /\ AttemptedTargets = <<P_dir1, P_c_tmp>>


(***************************************************************************)
(* C15  Strategy selection of the command line.  Checked under SpecCli.    *)
(* The sub-command del runs "glob_delete" when --glob was given and        *)
(* "endswith_delete" when it was not: it discovers with the glob matcher   *)
(* iff --glob, and deletes.  The sub-command edit runs "convert" whatever  *)
(* --glob is: it discovers with the suffix matcher and normalizes.         *)
(***************************************************************************)
C15_State ==
    /\ runs > 0 =>
          /\ (cli_args.cmd = "del" /\ cli_args.glob) => action = "glob_delete"
          /\ (cli_args.cmd = "del" /\ ~cli_args.glob) =>
                action = "endswith_delete"
          /\ cli_args.cmd = "edit" => action = "convert"
          /\ pc # "Raised"
    /\ Discovered =>
          Range(results) =
             IF cli_args.cmd = "del" /\ cli_args.glob
             THEN GlobSelected ELSE SuffixSelected

C15_Step ==
    Len(attempted') > Len(attempted) =>
       LET made == attempted'[Len(attempted')]
       IN  /\ cli_args.cmd = "del" =>
                 (made.err = NoError => made.target \notin DOMAIN fs')
           /\ cli_args.cmd = "edit" =>
                 /\ DOMAIN fs' = DOMAIN fs
                 /\ made.err = NoError =>
                       fs'[made.target].data = cleaned(fs[made.target].data)

C16_State ==
    /\ Applied =>
          /\ targets = results
          /\ \A k \in 1..Len(attempted) :
                attempted[k].target \in Range(results)
    /\ \A k \in 1..Len(prompted) :
          prompted[k].kind = "item" => prompted[k].path \in Range(results)
    /\ (prompted # <<>> \/ attempted # <<>>) => Walked

C16_Step ==
    /\ runs' > runs =>
          results' = <<>> /\ prompted' = <<>> /\ attempted' = <<>>
    /\ results' # results => (runs' > runs \/ pc = "Walking")
    /\ (pc = "BulkPrompt" /\ pc' = "Applying") => targets' = results
    /\ pc \in {"Applying", "ItemPrompt"} => targets' = targets
    /\ Len(prompted') > Len(prompted) =>
          \/ pc = "Walking" /\ prompted = <<>>
          \/ prompted'[Len(prompted')].path = results[idx]
    /\ Len(attempted') > Len(attempted) =>
          attempted'[Len(attempted')].target = results[idx]

C16_NoStaleTargets == []C16_State /\ [][C16_Step]_vars

\* a second run operated on its targets after a first run had discovered a
\* list of another total size
C16_Witness ==
    /\ runs = 2
    /\ Returned
    /\ attempted # <<>>
    /\ cum_size > SumSeq(sizes)
    /\ cum_size - SumSeq(sizes) # SumSeq(sizes)


(***************************************************************************)
(* C17  Outcome partition.  When the loop of _apply is over, every         *)
(* position of the target list is in exactly one of four classes:          *)
(* operated on with success, operated on with a recorded error, skipped by *)
(* an answer, not reached because of Abort.  i counts the first class and  *)
(* the error records the second, so i + errors + skipped + not reached is  *)
(* the number of targets, and without confirmation i + errors is.  No      *)
(* target is operated on more than once.                                   *)
(***************************************************************************)
\* the loop was left by an Abort answer, given at position idx
Aborted == confirm /\ item_answer \in AbortKeys

\* the positions the loop went through before it ended
Reached == IF Aborted THEN 1..(idx - 1) ELSE 1..Len(targets)

SucceededAt ==
    {n \in 1..Len(targets) :
        \E k \in 1..Len(attempted) :
           attempted[k].target = targets[n] /\ attempted[k].err = NoError}

FailedAt ==
    {n \in 1..Len(targets) :
        \E k \in 1..Len(attempted) :
           attempted[k].target = targets[n] /\ attempted[k].err # NoError}

SkippedAt == {n \in Reached : targets[n] \notin Range(AttemptedTargets)}

NotReachedAt == (1..Len(targets)) \ Reached

C17_OutcomePartition ==
    /\ NoDuplicates(AttemptedTargets)
    /\ LoopOver =>
          /\ SucceededAt \cap FailedAt = {}
          /\ SucceededAt \cup FailedAt \subseteq Reached
          /\ SucceededAt \cup FailedAt \cup SkippedAt \cup NotReachedAt
                = 1..Len(targets)
          /\ i = Cardinality(SucceededAt)
          /\ Len(errors) = Cardinality(FailedAt)
          /\ i + Len(errors) + Cardinality(SkippedAt)
                + Cardinality(NotReachedAt) = Len(targets)
          /\ \A n \in SkippedAt : targets[n] \in Range(ItemPrompts)
          /\ ~confirm =>
                /\ SkippedAt = {}
                /\ NotReachedAt = {}
                /\ i + Len(errors) = Len(targets)

\* four targets, one in each class
C17_Witness ==
    /\ Returned
    /\ Len(targets) = 4
    /\ Cardinality(SucceededAt) = 1
    /\ Cardinality(FailedAt) = 1
    /\ Cardinality(SkippedAt) = 1
    /\ Cardinality(NotReachedAt) = 1


(***************************************************************************)
(* C18  The kilobyte figure of the summary.  Once the summary line is      *)
(* logged, its figure is the rounded kilobytes of the sizes of all targets *)
(* recorded during the discovery of the run, whichever of them were        *)
(* operated on, skipped, failed or not reached: it is a function of the    *)
(* discovery result alone.                                                 *)
(***************************************************************************)
C18_FigureFromDiscovery ==
    (Applied /\ pc \in {"Errors", "Idle"} /\ LinesOf("summary") # <<>>) =>
       LinesOf("summary")[1].args[3] = Kilobytes(SumSeq(sizes))


(***************************************************************************)
(* C19  Bounded interaction and termination.  Checked under SpecLive, the  *)
(* one run of the command line tool with fairness.  A run displays at most *)
(* 1 + N prompts, where N is the number of the targets it discovered:      *)
(* one bulk prompt and at most one per-item prompt per target, and no      *)
(* per-item prompt at all without confirmation.  Provided every prompt is  *)
(* answered, a run that started returns to Idle.                           *)
(***************************************************************************)
C19_Bound ==
    /\ Len(prompted) <= 1 + Len(results)
    /\ Len(SelectSeq(prompted, LAMBDA q : q.kind = "bulk")) <= 1
    /\ NoDuplicates(ItemPrompts)
    /\ Len(ItemPrompts) <= Len(results)
    /\ (Applied /\ ~confirm) => Len(prompted) = 1
    /\ pc = "ItemPrompt" => confirm

\* run is between its call and its return
Running ==
    pc \in {"Walking", "BulkPrompt", "Applying", "ItemPrompt", "Summary", "Errors"}

C19_BoundedTermination == []C19_Bound /\ (Running ~> pc = "Idle")

\* a confirmed run over four targets displayed all five prompts and returned
C19_Witness ==
    /\ Returned
    /\ confirm
    /\ Len(results) = 4
    /\ Len(prompted) = 5

=============================================================================
